---- MODULE Spec2Model ----
(***************************************************************************)
(* A model of pdf_scanner_enterprise.py: the resumable parallel batch      *)
(* engine process_pdfs_enterprise, its checkpoint file (save_progress /    *)
(* load_progress), its output dataset (save_csv_data) and main's exit      *)
(* signal.                                                                 *)
(*                                                                         *)
(* Work-item ids are naturals.  The worker process_pdf_worker is opaque:   *)
(* the pool starts the futures in submission order, at most max_workers at *)
(* a time, and each ends with one of three outcomes: "ok" (success=True),  *)
(* "fail" (success=False, process_single_pdf caught an error) or "exc"     *)
(* (future.result() raises).  as_completed hands the futures to the        *)
(* coordinator in completion order.                                        *)
(***************************************************************************)
EXTENDS Integers, Sequences, FiniteSets, TLC

\* ---------------------------------------------------------------- bounds
\* Worker faults ("fail", "exc", a broken pool) the environment injects per run
\* of Spec, of SpecLong and of SpecTwo.
MaxFaults == 2

MaxLongFaults == 1

MaxTwoFaults == 1
\* I/O faults (a write that raises, a process death inside a write) per run.
MaxIoFaults == 1
\* Length of the long input of SpecLong.
MaxItems == 10

\* ------------------------------------------------------ program constants
\* "Save progress every 10 files": len(completed_files + failed_files) % 10
CheckpointEvery == 10

\* --------------------------------------------------------------- inputs
Range(s) == {s[i] : i \in DOMAIN s}

\* The argument lists of the short runs: empty (a glob that matches nothing),
\* distinct ids, a repeated id, an id whose document has no page, and a list
\* that names documents of the earlier batch again.
ShortInputs == {<< >>, <<1, 2>>, <<2, 2>>, <<3, 1, 2>>, <<101, 1, 109>>}

\* The argument lists of the two-run scenarios.
TwoInputs == {<<1, 2>>, <<3, 1, 2>>}

\* The pool sizes of the concurrency scenarios, and for each the shortest
\* list that leaves a call waiting for a worker.
PoolSizes == {1, 4, 8}

PoolInput(c) == [i \in 1..(c + 1) |-> i]

LongInputs == {[i \in 1..MaxItems |-> i]}

\* A checkpoint left by an earlier batch over nine other documents.
LegacyCompleted == [i \in 1..8 |-> 100 + i]

LegacyFailed == <<109>>

VARIABLES
    pc,              \* "idle", "collect", "interrupted", "exited"
    exit_code,       \* the process's exit status once pc = "exited"; -1 before
    exit_how,        \* how the process ended
    second,          \* TRUE once the second run of the scenario has begun
    progress_file,   \* the checkpoint file: [st, completed, failed]
    csv_file,        \* the output dataset: [st, rows]
    input,           \* pdf_paths as given to process_pdfs_enterprise
    resume,          \* the resume argument
    max_workers,     \* the pool size
    pdf_paths,       \* the submitted list (after the resume filter)
    fut,             \* future index -> "pending","running","ok","fail","exc","broken"
    finished,        \* futures completed and not yet yielded, completion order
    completed_files,
    failed_files,
    all_csv_data,
    returned,        \* << >> or <<succeeded, failed>> as returned to main
    loaded,          \* history: what load_progress returned in this run
    applied,         \* history: outcomes applied by the loop, arrival order
    checkpoints,     \* history: the completed save_progress calls of this run
    invoked,         \* history: ids process_pdf_worker was started on, this run
    after_int,       \* history: ids started after the interrupt arrived
    prev,            \* history: summary of the first run, for the second
    faults,          \* worker faults injected in this run
    io_faults        \* I/O faults injected in this run

vars == <<pc, exit_code, exit_how, second, progress_file, csv_file, input, resume,
          max_workers, pdf_paths, fut, finished, completed_files, failed_files,
          all_csv_data, returned, loaded, applied, checkpoints, invoked,
          after_int, prev, faults, io_faults>>

\* ------------------------------------------------------- pure functions
Min(S) == CHOOSE x \in S : \A y \in S : x <= y

\* process_single_pdf: one record per page; a document of id i has i % 3 pages.
Pages(id) == id % 3

Records(id) == [p \in 1..Pages(id) |-> [source_file |-> id, page_number |-> p]]

AbsentFile == [st |-> "absent", completed |-> << >>, failed |-> << >>]

\* What open(progress_file, 'w') leaves when json.dump does not finish.
TornFile == [st |-> "torn", completed |-> << >>, failed |-> << >>]

\* save_progress: the file content a completed call leaves (timestamp dropped).
SaveProgress(completed, failed) ==
    [st |-> "ok", completed |-> completed, failed |-> failed]

\* Mutant: an unparsable checkpoint is read as an empty one.
LoadProgressForgiving(file) ==
    IF file.st = "ok"
    THEN [raised |-> FALSE, completed |-> file.completed, failed |-> file.failed]
    ELSE [raised |-> FALSE, completed |-> << >>, failed |-> << >>]

\* load_progress: absent file => ([], []); unparsable file => json.load raises.
LoadProgress(file) ==
    CASE file.st = "absent" -> [raised |-> FALSE, completed |-> << >>, failed |-> << >>]
      [] file.st = "torn"   -> [raised |-> TRUE, completed |-> << >>, failed |-> << >>]
      [] OTHER              -> [raised |-> FALSE, completed |-> file.completed,
                                failed |-> file.failed]

\* Mutant: the resume filter forgets the failed list.
RemainingFilesCompletedOnly(paths, completed, failed) ==
    SelectSeq(paths, LAMBDA f : f \notin Range(completed))

\* remaining_files = [f for f in pdf_paths if f not in completed and f not in failed]
RemainingFiles(paths, completed, failed) ==
    SelectSeq(paths, LAMBDA f : f \notin Range(completed) /\ f \notin Range(failed))

\* Mutant: the cadence counts the completed list only.
CheckpointDueCompletedOnly(completed, failed) ==
    Len(completed) % CheckpointEvery = 0

\* len(completed_files + failed_files) % 10 == 0
CheckpointDue(completed, failed) ==
    (Len(completed) + Len(failed)) % CheckpointEvery = 0

AbsentCsv == [st |-> "absent", rows |-> << >>]

TornCsv == [st |-> "torn", rows |-> << >>]

\* Mutant: the header is written even when there is no record.
SaveCsvDataAlways(data, old) == [st |-> "ok", rows |-> data]

\* Mutant: the file is opened for appending.
SaveCsvDataAppend(data, old) ==
    IF data = << >> THEN old ELSE [st |-> "ok", rows |-> old.rows \o data]

\* save_csv_data: nothing on an empty list, else header plus one row per record.
SaveCsvData(data, old) ==
    IF data = << >> THEN old ELSE [st |-> "ok", rows |-> data]

\* What a write leaves on disk, by how it ended: completed, raised before the
\* file was opened, raised after open(..., 'w') truncated it, or the process
\* died after the truncation.
Written(res, old, new, torn) ==
    CASE res = "ok"              -> new
      [] res = "raise_unchanged" -> old
      [] OTHER                   -> torn

\* Mutant: main ignores the failed count.
ExitCodeAlwaysZero(nfailed) == 0

\* main: if failed > 0: sys.exit(1)
ExitCode(nfailed) == IF nfailed > 0 THEN 1 ELSE 0

SaveResults == {"ok", "raise_unchanged", "raise_torn", "die"}

CsvResults == {"ok", "raise_unchanged", "raise_torn"}

IoFault(res) == IF res \in {"ok", "none"} THEN 0 ELSE 1

Pending == {i \in DOMAIN fut : fut[i] = "pending"}

Running == {i \in DOMAIN fut : fut[i] = "running"}

\* ---------------------------------------------------------------- Init
Init ==
    /\ pc = "idle"
    /\ exit_code = -1
    /\ exit_how = "none"
    /\ second = FALSE
    /\ progress_file \in {AbsentFile, SaveProgress(LegacyCompleted, LegacyFailed)}
    /\ csv_file = AbsentCsv
    /\ input = << >>
    /\ resume = FALSE
    /\ max_workers = 1
    /\ pdf_paths = << >>
    /\ fut = << >>
    /\ finished = << >>
    /\ completed_files = << >>
    /\ failed_files = << >>
    /\ all_csv_data = << >>
    /\ returned = << >>
    /\ loaded = [completed |-> << >>, failed |-> << >>]
    /\ applied = << >>
    /\ checkpoints = << >>
    /\ invoked = << >>
    /\ after_int = << >>
    /\ prev = [ran |-> FALSE, input |-> << >>, how |-> "none", applied_ids |-> {},
               ninvoked |-> 0, csv |-> AbsentCsv]
    /\ faults = 0
    /\ io_faults = 0

\* -------------------------------------------------------------- actions
\* main up to and including the submission of the futures:
\* process_pdfs_enterprise's resume filter and executor.submit of each path.
Begin(in, workers, res) ==
    LET ld   == IF res THEN LoadProgress(progress_file)
                ELSE [raised |-> FALSE, completed |-> << >>, failed |-> << >>]
        rest == IF res THEN RemainingFiles(in, ld.completed, ld.failed) ELSE in
    IN  /\ input' = in
        /\ resume' = res
        /\ max_workers' = workers
        /\ loaded' = [completed |-> ld.completed, failed |-> ld.failed]
        /\ completed_files' = ld.completed
        /\ failed_files' = ld.failed
        /\ all_csv_data' = << >>
        /\ returned' = << >>
        /\ applied' = << >>
        /\ checkpoints' = << >>
        /\ invoked' = << >>
        /\ after_int' = << >>
        /\ finished' = << >>
        /\ faults' = 0
        /\ io_faults' = 0
        /\ IF ld.raised
           THEN /\ pc' = "exited"
                /\ exit_code' = 1
                /\ exit_how' = "exception"
                /\ pdf_paths' = << >>
                /\ fut' = << >>
           ELSE /\ pc' = "collect"
                /\ exit_code' = -1
                /\ exit_how' = "none"
                /\ pdf_paths' = rest
                /\ fut' = [i \in 1..Len(rest) |-> "pending"]
        /\ UNCHANGED <<progress_file, csv_file>>

\* The first run.
StartRun(in, workers, res) ==
    /\ pc = "idle"
    /\ Begin(in, workers, res)
    /\ UNCHANGED <<second, prev>>

\* The same program started once more after the first run ended.
ReRun(in, workers, res) ==
    /\ pc = "exited"
    /\ ~second
    /\ second' = TRUE
    /\ prev' = [ran |-> TRUE, input |-> input, how |-> exit_how,
                applied_ids |-> {applied[k].id : k \in DOMAIN applied},
                ninvoked |-> Len(invoked), csv |-> csv_file]
    /\ Begin(in, workers, res)

\* main: "Error: No PDF files provided!", sys.exit(1), before any batch run.
NoFiles ==
    /\ pc = "idle"
    /\ pc' = "exited"
    /\ exit_code' = 1
    /\ exit_how' = "nofiles"
    /\ UNCHANGED <<second, progress_file, csv_file, input, resume, max_workers,
                   pdf_paths, fut, finished, completed_files, failed_files,
                   all_csv_data, returned, loaded, applied, checkpoints, invoked,
                   after_int, prev, faults, io_faults>>

\* Mutant: the pool starts a call whether or not a worker is free.
PoolAlwaysFree == TRUE

\* ProcessPoolExecutor(max_workers=max_workers): a call starts only on a free
\* worker process.
PoolHasFreeWorker == Cardinality(Running) < max_workers

\* The pool hands the oldest pending call to a free worker process.  The pool
\* keeps doing so after an interrupt: the with-block's exit is
\* shutdown(wait=True) without cancel_futures.
WorkerStart ==
    /\ pc \in {"collect", "interrupted"}
    /\ Pending # {}
    /\ PoolHasFreeWorker
    /\ LET i == Min(Pending)
       IN  /\ fut' = [fut EXCEPT ![i] = "running"]
           /\ invoked' = Append(invoked, pdf_paths[i])
           /\ after_int' = IF pc = "interrupted"
                           THEN Append(after_int, pdf_paths[i]) ELSE after_int
    /\ UNCHANGED <<pc, exit_code, exit_how, second, progress_file, csv_file, input,
                   resume, max_workers, pdf_paths, finished, completed_files,
                   failed_files, all_csv_data, returned, loaded, applied,
                   checkpoints, prev, faults, io_faults>>

\* process_pdf_worker ends on future i: it returns success True or False, or
\* raises (PDFProcessor.__init__ is outside process_single_pdf's try).
WorkerFinish(i, outcome, budget) ==
    /\ pc \in {"collect", "interrupted"}
    /\ i \in Running
    /\ outcome # "ok" => faults < budget
    /\ faults' = IF outcome = "ok" THEN faults ELSE faults + 1
    /\ fut' = [fut EXCEPT ![i] = outcome]
    /\ finished' = Append(finished, i)
    /\ UNCHANGED <<pc, exit_code, exit_how, second, progress_file, csv_file, input,
                   resume, max_workers, pdf_paths, completed_files, failed_files,
                   all_csv_data, returned, loaded, applied, checkpoints, invoked,
                   after_int, prev, io_faults>>

RECURSIVE Ascending(_)
Ascending(S) == IF S = {} THEN << >> ELSE <<Min(S)>> \o Ascending(S \ {Min(S)})

\* A worker process dies abruptly: the executor marks every call that has not
\* finished with BrokenProcessPool, so each of their futures raises.
PoolBreak(budget) ==
    /\ pc = "collect"
    /\ Running # {}
    /\ faults < budget
    /\ faults' = faults + 1
    /\ fut' = [i \in DOMAIN fut |-> IF i \in Pending \cup Running THEN "exc" ELSE fut[i]]
    /\ finished' = finished \o Ascending(Pending \cup Running)
    /\ UNCHANGED <<pc, exit_code, exit_how, second, progress_file, csv_file, input,
                   resume, max_workers, pdf_paths, completed_files, failed_files,
                   all_csv_data, returned, loaded, applied, checkpoints, invoked,
                   after_int, prev, io_faults>>

\* if success: completed_files.append(pdf_path_result)
CompletedAfter(out, completed, id) ==
    IF out = "ok" THEN Append(completed, id) ELSE completed

\* Mutant: the failed list is assigned, not appended to.
FailedAfterReset(out, failed, id) ==
    IF out = "fail" THEN <<id>> ELSE failed

\* else: failed_files.append(pdf_path_result)
FailedAfter(out, failed, id) ==
    IF out = "fail" THEN Append(failed, id) ELSE failed

\* Mutant: the records are added outside the "if success".
CsvAfterAnyOutcome(out, data, id) == data \o Records(id)

\* if success: all_csv_data.extend(csv_data)
CsvAfter(out, data, id) ==
    IF out = "ok" THEN data \o Records(id) ELSE data

\* Mutant: the except branch only logs.
ExceptBranchDrops(failed, id) == failed

\* except Exception: failed_files.append(pdf_path)
ExceptBranch(failed, id) == Append(failed, id)

\* The body of "for future in as_completed(future_to_pdf)" for the next
\* completed future: future.result(), the append to completed_files or
\* failed_files, the periodic save_progress, and the except branch, which also
\* catches what save_progress raises.
Collect(saveRes) ==
    /\ pc = "collect"
    /\ finished # << >>
    /\ LET i   == Head(finished)
           id  == pdf_paths[i]
           out == fut[i]
           c1  == CompletedAfter(out, completed_files, id)
           f1  == FailedAfter(out, failed_files, id)
           due == out # "exc" /\ CheckpointDue(c1, f1)
       IN  /\ finished' = Tail(finished)
           /\ IF due THEN saveRes \in SaveResults ELSE saveRes = "none"
           /\ io_faults + IoFault(saveRes) <= MaxIoFaults
           /\ io_faults' = io_faults + IoFault(saveRes)
           /\ applied' = Append(applied, [id |-> id, kind |-> out, save |-> saveRes])
           /\ completed_files' = c1
           /\ all_csv_data' = CsvAfter(out, all_csv_data, id)
           /\ failed_files' = IF out = "exc" \/ saveRes \in {"raise_unchanged", "raise_torn"}
                              THEN ExceptBranch(f1, id) ELSE f1
           /\ progress_file' = IF due
                               THEN Written(saveRes, progress_file,
                                            SaveProgress(c1, f1), TornFile)
                               ELSE progress_file
           /\ checkpoints' = IF saveRes = "ok"
                             THEN Append(checkpoints,
                                         [completed |-> c1, failed |-> f1,
                                          napplied |-> Len(applied) + 1])
                             ELSE checkpoints
           /\ IF saveRes = "die"
              THEN pc' = "exited" /\ exit_code' = 1 /\ exit_how' = "killed"
              ELSE UNCHANGED <<pc, exit_code, exit_how>>
    /\ UNCHANGED <<second, csv_file, input, resume, max_workers, pdf_paths, fut,
                   returned, loaded, invoked, after_int, prev, faults>>

\* KeyboardInterrupt in the coordinator while it waits in as_completed.  It is
\* no Exception, so the except branch does not catch it: the loop is left and
\* the with-block's exit waits for the pool.  The signal may or may not have
\* reached the worker processes too.
Interrupt(alive) ==
    /\ pc = "collect"
    /\ pc' = "interrupted"
    /\ fut' = IF alive THEN fut
              ELSE [i \in DOMAIN fut |->
                      IF i \in Pending \cup Running THEN "broken" ELSE fut[i]]
    /\ UNCHANGED <<exit_code, exit_how, second, progress_file, csv_file, input,
                   resume, max_workers, pdf_paths, finished, completed_files,
                   failed_files, all_csv_data, returned, loaded, applied,
                   checkpoints, invoked, after_int, prev, faults, io_faults>>

\* The pool has drained after the interrupt: the KeyboardInterrupt leaves
\* process_pdfs_enterprise and main uncaught.  Lines 245-249 are not reached.
InterruptExit ==
    /\ pc = "interrupted"
    /\ Pending = {}
    /\ Running = {}
    /\ pc' = "exited"
    /\ exit_code' = 1
    /\ exit_how' = "interrupt"
    /\ UNCHANGED <<second, progress_file, csv_file, input, resume, max_workers,
                   pdf_paths, fut, finished, completed_files, failed_files,
                   all_csv_data, returned, loaded, applied, checkpoints, invoked,
                   after_int, prev, faults, io_faults>>

\* After the loop: save_csv_data, the final save_progress, the report (which
\* divides by len(completed_files + failed_files)), the return, and main's
\* sys.exit(1) when failed > 0.
Finish(csvRes, saveRes) ==
    /\ pc = "collect"
    /\ finished = << >>
    /\ Pending = {}
    /\ Running = {}
    /\ csvRes \in CsvResults
    /\ all_csv_data = << >> => csvRes = "ok"
    /\ IF csvRes = "ok" THEN saveRes \in SaveResults ELSE saveRes = "none"
    /\ io_faults + IoFault(csvRes) + IoFault(saveRes) <= MaxIoFaults
    /\ io_faults' = io_faults + IoFault(csvRes) + IoFault(saveRes)
    /\ csv_file' = Written(csvRes, csv_file, SaveCsvData(all_csv_data, csv_file), TornCsv)
    /\ progress_file' = IF csvRes = "ok"
                        THEN Written(saveRes, progress_file,
                                     SaveProgress(completed_files, failed_files), TornFile)
                        ELSE progress_file
    /\ checkpoints' = IF saveRes = "ok"
                      THEN Append(checkpoints,
                                  [completed |-> completed_files, failed |-> failed_files,
                                   napplied |-> Len(applied)])
                      ELSE checkpoints
    /\ pc' = "exited"
    /\ IF saveRes = "ok" /\ Len(completed_files) + Len(failed_files) # 0
       THEN /\ returned' = <<Len(completed_files), Len(failed_files)>>
            /\ exit_code' = ExitCode(Len(failed_files))
            /\ exit_how' = "returned"
       ELSE /\ returned' = << >>
            /\ exit_code' = 1
            /\ exit_how' = IF saveRes = "die" THEN "killed" ELSE "exception"
    /\ UNCHANGED <<second, input, resume, max_workers, pdf_paths, fut, finished,
                   completed_files, failed_files, all_csv_data, loaded, applied,
                   invoked, after_int, prev, faults>>

Outcomes == {"ok", "fail", "exc"}

\* ------------------------------------------------------- specifications
\* One run over a short input, with one or two workers.
Next ==
    \/ \E in \in ShortInputs, w \in {1, 2}, r \in BOOLEAN : StartRun(in, w, r)
    \/ NoFiles
    \/ WorkerStart
    \/ \E i \in DOMAIN fut, o \in Outcomes : WorkerFinish(i, o, MaxFaults)
    \/ PoolBreak(MaxFaults)
    \/ \E s \in SaveResults \cup {"none"} : Collect(s)
    \/ \E a \in BOOLEAN : Interrupt(a)
    \/ InterruptExit
    \/ \E c \in CsvResults, s \in SaveResults \cup {"none"} : Finish(c, s)

Spec == Init /\ [][Next]_vars

\* One uninterrupted run over the long input with one worker: arrival order is
\* submission order.
NextLong ==
    \/ \E in \in LongInputs, r \in BOOLEAN : StartRun(in, 1, r)
    \/ WorkerStart
    \/ \E i \in DOMAIN fut, o \in Outcomes : WorkerFinish(i, o, MaxLongFaults)
    \/ PoolBreak(MaxLongFaults)
    \/ \E s \in SaveResults \cup {"none"} : Collect(s)
    \/ \E c \in CsvResults, s \in SaveResults \cup {"none"} : Finish(c, s)

SpecLong == Init /\ [][NextLong]_vars

\* A run over a short input, then the program started again on the same list
\* with the same pool size.
NextTwo ==
    \/ \E in \in TwoInputs, w \in {1, 2}, r \in BOOLEAN : StartRun(in, w, r)
    \/ \E r \in BOOLEAN : ReRun(input, max_workers, r)
    \/ WorkerStart
    \/ \E i \in DOMAIN fut, o \in Outcomes : WorkerFinish(i, o, MaxTwoFaults)
    \/ PoolBreak(MaxTwoFaults)
    \/ \E s \in SaveResults \cup {"none"} : Collect(s)
    \/ \E a \in BOOLEAN : Interrupt(a)
    \/ InterruptExit
    \/ \E c \in CsvResults, s \in SaveResults \cup {"none"} : Finish(c, s)

SpecTwo == Init /\ [][NextTwo]_vars

\* The start and completion events of c + 1 calls on a pool of c workers, c in
\* {1, 4, 8}, in every interleaving.  The coordinator's steps are left out of
\* this specification: Collect and Finish neither read nor write which calls
\* are pending or running.
NextPool ==
    \/ \E c \in PoolSizes : StartRun(PoolInput(c), c, FALSE)
    \/ WorkerStart
    \/ \E i \in DOMAIN fut : WorkerFinish(i, "ok", MaxFaults)

SpecPool == Init /\ [][NextPool]_vars

\* ------------------------------------------------------------- claims
LoadedIds == Range(loaded.completed) \cup Range(loaded.failed)

AppliedKinds == {applied[k].kind : k \in DOMAIN applied}

\* Entries appended to the two lists since the run began.
AppendedThisRun ==
    (Len(completed_files) - Len(loaded.completed))
    + (Len(failed_files) - Len(loaded.failed))

\* C1: at every point of a run no id is in both completed_files and
\* failed_files, and every outcome the loop has applied added exactly one
\* entry to exactly one of the two lists.
C1_OneListOnce ==
    /\ Range(completed_files) \cap Range(failed_files) = {}
    /\ AppendedThisRun = Len(applied)

\* C2: when process_pdfs_enterprise returns normally, the ids of
\* completed_files and failed_files together are exactly the ids of the input
\* list plus the ids loaded from the checkpoint.
C2_AllTerminal ==
    exit_how = "returned" =>
        Range(completed_files) \cup Range(failed_files) = Range(input) \cup LoadedIds

C2_Witness ==
    /\ exit_how = "returned"
    /\ resume
    /\ loaded.completed # << >>
    /\ Len(pdf_paths) >= 2
    /\ {"ok", "exc"} \subseteq AppliedKinds

\* C3: in a resume run no id of the loaded checkpoint's completed or failed
\* list is submitted or started, and every other id of the input is submitted.
C3_ResumeSkipsLoaded ==
    resume =>
        /\ Range(pdf_paths) \cap LoadedIds = {}
        /\ Range(invoked) \cap LoadedIds = {}
        /\ pc \in {"collect", "interrupted"} => Range(pdf_paths) = Range(input) \ LoadedIds

C3_Witness ==
    /\ resume
    /\ Range(input) \cap Range(loaded.completed) # {}
    /\ Range(input) \cap Range(loaded.failed) # {}
    /\ invoked # << >>
    /\ exit_how = "returned"

\* Outcomes applied in memory that the last completed checkpoint of the run
\* does not contain.
Unsaved ==
    Len(applied) - (IF checkpoints = << >> THEN 0
                    ELSE checkpoints[Len(checkpoints)].napplied)

\* C4: at any moment at most 9 outcomes are applied in memory and not yet in
\* the last completed checkpoint.
C4_AtMostNineUnsaved == Unsaved <= CheckpointEvery - 1

\* C5: a process death during a checkpoint write leaves a loadable checkpoint
\* file, never an empty or truncated one.
C5_AtomicSave == exit_how = "killed" => progress_file.st # "torn"

\* C6: after an interrupt no pending item is handed to a worker, and the
\* process exits with a checkpoint on disk that holds every applied outcome.
C6_InterruptCheckpoints ==
    /\ after_int = << >>
    /\ exit_how = "interrupt" =>
           \A k \in DOMAIN applied :
               /\ progress_file.st = "ok"
               /\ applied[k].id \in Range(progress_file.completed)
                                     \cup Range(progress_file.failed)

IsDistinct(s) == \A i, j \in DOMAIN s : s[i] = s[j] => i = j

\* C7: a run over n distinct items is interrupted when k outcomes are applied
\* (read here in the claim's favour: nothing else was started, and the pool
\* of the second run does not break), and the program is run again with
\* resume on the same list; once the second run returns, process_pdf_worker
\* was started n times in all and on no id whose outcome the first run had
\* applied.
C7_ResumeTotal ==
    ( /\ second
      /\ resume
      /\ exit_how = "returned"
      /\ prev.how = "interrupt"
      /\ IsDistinct(input)
      /\ prev.ninvoked = Cardinality(prev.applied_ids)
      /\ Len(invoked) = Len(pdf_paths) ) =>
        /\ prev.ninvoked + Len(invoked) = Len(input)
        /\ Range(invoked) \cap prev.applied_ids = {}

\* C8: a batch run on an empty input with no prior progress and no I/O fault
\* returns succeeded = 0 and failed = 0, writes no output dataset and exits
\* with success.
C8_EmptyRun ==
    ( /\ pc = "exited"
      /\ exit_how # "nofiles"
      /\ input = << >>
      /\ LoadedIds = {}
      /\ io_faults = 0 ) =>
        /\ returned = <<0, 0>>
        /\ exit_code = 0
        /\ csv_file = AbsentCsv

\* C9 as stated: the process exits with failure if and only if failed_files is
\* non-empty after the run, in every terminating execution of main that
\* reaches the batch run (read here in the claim's favour: the batch applied
\* at least one outcome and was neither interrupted nor killed).
C9_FailureIffFailed ==
    (pc = "exited" /\ exit_how \in {"returned", "exception"} /\ applied # << >>) =>
        (exit_code = 1 <=> failed_files # << >>)

\* C9 as amended: when process_pdfs_enterprise returns to main the exit signal
\* is failure if and only if failed_files is non-empty; when the run ends in
\* an uncaught exception, an interrupt or a process death the exit signal is
\* failure whatever failed_files holds.
C9_ExitSignal ==
    pc = "exited" =>
        IF exit_how = "returned"
        THEN /\ exit_code \in {0, 1}
             /\ exit_code = 1 <=> failed_files # << >>
        ELSE exit_code = 1

C9_Witness ==
    /\ exit_how = "returned"
    /\ exit_code = 1
    /\ {"ok", "fail"} \subseteq AppliedKinds
    /\ returned = <<1, 1>>

RECURSIVE SuccessRecords(_)
SuccessRecords(outcomes) ==
    IF outcomes = << >> THEN << >>
    ELSE (IF Head(outcomes).kind = "ok" THEN Records(Head(outcomes).id) ELSE << >>)
         \o SuccessRecords(Tail(outcomes))

\* C10: all_csv_data is the concatenation, in arrival order, of the records of
\* the applied outcomes whose success flag is true.
C10_CsvIsSuccessRecords == all_csv_data = SuccessRecords(applied)

C10_Witness ==
    /\ Len(applied) = 3
    /\ {"ok", "fail", "exc"} \subseteq AppliedKinds
    /\ applied[1].id # pdf_paths[1]
    /\ all_csv_data # << >>

\* C11: with max_workers = c, c in {1, 4, 8}, never more than c invocations of
\* process_pdf_worker execute at the same time.
C11_PoolBound ==
    pc \in {"collect", "interrupted"} => Cardinality(Running) <= max_workers

C11_Witness ==
    /\ max_workers = 8
    /\ Cardinality(Running) = 8
    /\ Pending # {}

Raised == {"raise_unchanged", "raise_torn"}

\* C12: each submitted call is started at most once and in submission order;
\* an outcome applied through the except branch leaves its id in
\* failed_files; and the run ends (returns, or fails in its final writes)
\* only after every submitted call's outcome was applied.
C12_FailuresIsolated ==
    /\ Len(invoked) <= Len(pdf_paths)
    /\ invoked = SubSeq(pdf_paths, 1, Len(invoked))
    /\ \A k \in DOMAIN applied :
           applied[k].kind = "exc" => applied[k].id \in Range(failed_files)
    /\ (pc = "exited" /\ exit_how \in {"returned", "exception"}) =>
           Len(applied) = Len(pdf_paths)

C12_Witness ==
    /\ exit_how = "returned"
    /\ Len(applied) = 3
    /\ applied[1].kind = "exc"
    /\ applied[2].kind = "ok"
    /\ applied[1].id \in Range(failed_files)
    /\ applied[1].id \notin Range(completed_files)

\* C13: every completed checkpoint write of a run stores supersets of the
\* completed and failed ids of every earlier write of the run.
C13_CheckpointsGrow ==
    \A i, j \in DOMAIN checkpoints :
        i < j => /\ Range(checkpoints[i].completed) \subseteq Range(checkpoints[j].completed)
                 /\ Range(checkpoints[i].failed) \subseteq Range(checkpoints[j].failed)

C13_Witness ==
    /\ Len(checkpoints) >= 2
    /\ Len(checkpoints[2].completed) > Len(checkpoints[1].completed)
    /\ Len(checkpoints[2].failed) > Len(checkpoints[1].failed)
    /\ progress_file = SaveProgress(checkpoints[2].completed, checkpoints[2].failed)

NotOkIds == {applied[k].id : k \in {j \in DOMAIN applied : applied[j].kind # "ok"}}

OkIds == {applied[k].id : k \in {j \in DOMAIN applied : applied[j].kind = "ok"}}

\* C14: a non-resume run over n distinct items of which k yield a failure
\* returns (n - k, k) and leaves a checkpoint that lists exactly those k ids
\* as failed and exactly the other n - k as completed.
C14_Counts ==
    (exit_how = "returned" /\ ~resume /\ IsDistinct(input)) =>
        /\ returned = <<Len(input) - Cardinality(NotOkIds), Cardinality(NotOkIds)>>
        /\ progress_file.st = "ok"
        /\ Range(progress_file.failed) = NotOkIds
        /\ Range(progress_file.completed) = OkIds
        /\ Len(progress_file.failed) = Cardinality(NotOkIds)
        /\ Len(progress_file.completed) = Cardinality(OkIds)

\* C15: an outcome whose periodic checkpoint write raised keeps the terminal
\* state it was given (a success is not filed as failed, a failure is filed
\* once), and a failed write of the output dataset ends the run.
C15_SaveFailureOnlyLogged ==
    /\ \A k \in DOMAIN applied :
           (applied[k].save \in Raised /\ IsDistinct(pdf_paths)) =>
               /\ applied[k].kind = "ok" => applied[k].id \notin Range(failed_files)
               /\ applied[k].kind = "fail" =>
                      Cardinality({i \in DOMAIN failed_files :
                                      failed_files[i] = applied[k].id}) = 1
    /\ csv_file.st = "torn" => pc = "exited" /\ exit_code = 1

C17_OneRowPerRecord ==
    exit_how = "returned" =>
        IF all_csv_data # << >>
        THEN /\ csv_file.st = "ok"
             /\ Len(csv_file.rows) = Len(all_csv_data)
             /\ csv_file.rows = all_csv_data
        ELSE csv_file = AbsentCsv

C17_Witness ==
    /\ exit_how = "returned"
    /\ Len(csv_file.rows) = 3
    /\ "fail" \in AppliedKinds

\* C18: in a resume run the loaded failed ids stay at the head of
\* failed_files, are never started, are in every checkpoint the run writes,
\* and make the returned failed count at least their number and the exit
\* signal failure.
C18_LoadedFailedStay ==
    resume =>
        /\ Len(failed_files) >= Len(loaded.failed)
        /\ SubSeq(failed_files, 1, Len(loaded.failed)) = loaded.failed
        /\ Range(invoked) \cap Range(loaded.failed) = {}
        /\ \A i \in DOMAIN checkpoints :
               Range(loaded.failed) \subseteq Range(checkpoints[i].failed)
        /\ exit_how = "returned" =>
               /\ returned[2] >= Len(loaded.failed)
               /\ loaded.failed # << >> => exit_code = 1

C18_Witness ==
    /\ resume
    /\ loaded.failed # << >>
    /\ Range(input) \cap Range(loaded.failed) # {}
    /\ exit_how = "returned"
    /\ applied # << >>
    /\ AppliedKinds = {"ok"}
    /\ exit_code = 1
    /\ checkpoints # << >>

\* len(completed_files + failed_files) right after the k-th outcome was filed:
\* the loaded entries, one entry per outcome, and one more for every earlier
\* outcome whose periodic save raised.
TotalAfter(k) ==
    Len(loaded.completed) + Len(loaded.failed) + k
    + Cardinality({j \in 1..(k - 1) : applied[j].save \in Raised})

C20_LastSuccessfulRun ==
    (second /\ resume /\ exit_how = "returned") =>
        IF "ok" \in AppliedKinds
        THEN csv_file = [st |-> "ok", rows |-> all_csv_data]
        ELSE csv_file = prev.csv

\* C20 as amended: after a resume run that returns, the dataset holds this
\* run's records alone if the run accumulated a record, and is the earlier
\* file unchanged if it accumulated none.
C20_LastRunWithRecords ==
    (second /\ resume /\ exit_how = "returned") =>
        IF all_csv_data # << >>
        THEN csv_file = [st |-> "ok", rows |-> all_csv_data]
        ELSE csv_file = prev.csv

C20_Witness ==
    /\ second
    /\ resume
    /\ exit_how = "returned"
    /\ prev.csv.st = "ok"
    /\ all_csv_data # << >>
    /\ csv_file.rows = all_csv_data
    /\ Range(prev.csv.rows) \cap Range(csv_file.rows) = {}

====
